---- MODULE Spec2Model ----
(***************************************************************************)
(* gameserver-mgr: the coordination kernel.                                *)
(*                                                                         *)
(*   - the lock service (lib/lock.mjs): exclusive lock files in a shared   *)
(*     directory, isLocked / spinClear / spinLock / releaseLock;           *)
(*   - the download driver (bin/downloadManager.mjs) with its tool child   *)
(*     (lib/steamcmd.mjs) and cancelDownload;                              *)
(*   - the repo driver (bin/repoManager.mjs, the current revision that     *)
(*     starts at line 255 of the file);                                    *)
(*   - the overlay composer, which the repository only documents           *)
(*     (doc/notes.md) and the specification describes.                     *)
(*                                                                         *)
(* One step of the model is one run-to-completion turn of a Node.js event  *)
(* loop: from the delivery of an event (a bus message, a timer, the        *)
(* completion of a file-system call, the exit of a child) up to the next   *)
(* point where the handler waits for another event.  Awaiting a promise    *)
(* that is already settled does not end the turn.                          *)
(***************************************************************************)
EXTENDS Integers, Sequences, FiniteSets, TLC

(***************************************************************************)
(* Bounds of the model.                                                    *)
(***************************************************************************)
\* Polls an isLocked wait may observe "held" before it throws.  The drivers
\* pass 30 (seconds); the model scales the budget down.
SpinTimeout == 2

\* runSteamCmd invocations one task may make (the first spawn plus the
\* re-spawns after exit code 42).  The code has no such cap.
MaxSpawns == 2

\* The same cap where one download task is followed alone.
ToolMaxSpawns == 7

\* The coordinator's wait for its instance lock is followed for this many
\* polls that find the lock held.  The code has no such cap.
MaxLockPolls == 3

(***************************************************************************)
(* Lock names and the patterns they are tested against.                    *)
(*                                                                         *)
(* A name is a sequence of atoms, each standing for a piece of text that   *)
(* no other atom overlaps; "-" is an atom of its own.  A pattern is what   *)
(* new RegExp(pattern) is built from: a literal, unanchored ("substr"),    *)
(* anchored at both ends ("exact": ^lit$) or anchored with a trailing .*   *)
(* ("prefix": ^lit.*$).                                                    *)
(***************************************************************************)
GameIds == {"csgo"}
InstanceIds == {"srv"}

DownloadGameLock(g) == <<"downloadGame", "-", g>>
BaseMountLock(g, i) == <<"baseMount", "-", g, "-", i>>
ConfigMountLock(g, i) == <<"configMount", "-", g, "-", i>>
RepoDownloadLock(i) == <<"repoDownload", "-", i>>
ModuleLock(m) == <<m>>
LifecycleLock(g, i) == <<"lifecycleManager", "-", g, "-", i>>

\* Names used by the lock-service scenarios: the second contains the first.
ScenarioLockA == <<"repoDownload", "-", "srv">>
ScenarioLockB == <<"repoDownload", "-", "srv", "1">>

\* The lock directory listing, in the order readdir reports it.
LockNameSeq ==
    << DownloadGameLock("csgo"), BaseMountLock("csgo", "srv"),
       ConfigMountLock("csgo", "srv"), RepoDownloadLock("srv"),
       ScenarioLockB, ModuleLock("downloadManager"), ModuleLock("repoManager"),
       ModuleLock("lifecycleManager"), LifecycleLock("csgo", "srv") >>

LockNames == {LockNameSeq[k] : k \in 1..Len(LockNameSeq)}

SubstrPat(lit) == [kind |-> "substr", lit |-> lit]
ExactPat(lit) == [kind |-> "exact", lit |-> lit]
PrefixPat(lit) == [kind |-> "prefix", lit |-> lit]

IsPrefixOf(p, s) == Len(p) <= Len(s) /\ SubSeq(s, 1, Len(p)) = p

ContainsSeq(p, s) ==
    \E k \in 0..(Len(s) - Len(p)) : SubSeq(s, k + 1, k + Len(p)) = p

\* regex.test(name)
RegexTest(pat, name) ==
    CASE pat.kind = "substr" -> ContainsSeq(pat.lit, name)
      [] pat.kind = "exact" -> name = pat.lit
      [] pat.kind = "prefix" -> IsPrefixOf(pat.lit, name)

(***************************************************************************)
(* The lock service.  A lock directory is a function from lock names to    *)
(* the process that created the file, or NoOwner when there is no file.    *)
(* The lock files carry no owner: the owner is kept for the properties.    *)
(***************************************************************************)
NoOwner == "none"

ListLocks(dir) == SelectSeq(LockNameSeq, LAMBDA n : dir[n] # NoOwner)

\* lock.checkSync(path, {stale: false}): the file exists.
CheckSync(dir, name) == dir[name] # NoOwner

RECURSIVE IsLockedFrom(_, _, _, _)
IsLockedFrom(dir, listing, k, pat) ==
    IF k > Len(listing) THEN FALSE
    ELSE IF RegexTest(pat, listing[k]) THEN CheckSync(dir, listing[k])
    ELSE IsLockedFrom(dir, listing, k + 1, pat)

\* isLocked(pattern): the status of the first listed lock the regex matches.
IsLocked(dir, pat) == IsLockedFrom(dir, ListLocks(dir), 1, pat)

\* A lock.lock that opens without O_EXCL: it never reports EEXIST.
CanAcquireShared(dir, name) == TRUE

\* lock.lock(path, cb) with no options: open(path, O_CREAT | O_EXCL).
CanAcquire(dir, name) == dir[name] = NoOwner
AcquireLock(dir, name, who) == [dir EXCEPT ![name] = who]

\* A lock.unlock that leaves the file in place.
ReleaseLockKept(dir, name) == dir

\* lock.unlock(path, cb): unlink, whoever created the file; no error if absent.
ReleaseLock(dir, name) == [dir EXCEPT ![name] = NoOwner]

\* One pass of spinClear's loop, on the result of isLocked and the budget left:
\* "clear" ends the wait, "timeout" throws, "wait" sleeps one interval.
SpinResult(locked, left) ==
    IF ~locked THEN "clear"
    ELSE IF left - 1 = 0 THEN "timeout"
    ELSE "wait"

(***************************************************************************)
(* State.                                                                  *)
(***************************************************************************)
Reqs == {"r1", "r2"}
Cancels == {"c1", "c2"}
Keys == GameIds \cup InstanceIds

\* The clients publish in a fixed order: r1 before r2, c1 before c2.
Before(x) == IF x = "r2" THEN {"r1"} ELSE IF x = "c2" THEN {"c1"} ELSE {}

VARIABLES
    locks,            \* the lock directory
    driver,           \* which driver process the run follows: "download" | "repo"
    proc,             \* that process: "up" | "crashed" (ended by an uncaught exception)
    req,              \* the request each client published
    pc,               \* where the handler of each request stands
    spinLeft,         \* the budget left of the handler's current spinClear
    runningDownloads, \* the driver's task table, by task key
    out,              \* the messages published under each replyTo, in order
    manifestCached,   \* the manifest module has been imported once
    toolPresent,      \* steamCmdDir/linux32/steamcmd exists and is executable
    child,            \* the tool child of each task: "none" | "alive" | "exited"
    runs,             \* per task, cancelInProgress of each runSteamCmd invocation
    sigterm,          \* SIGTERM has been sent to the task's live child
    exited,           \* per task, code.exitCode of each child that has exited
    forwarder,        \* steamCmdChildSignalForwarder: its exitSignal listeners
    downloadDir,      \* the directory request.downloadDir exists
    lastLog,          \* lastLog of the record of the task in flight
    received,         \* how many 'data' events the task's outputSink has had
    probe,            \* a call of isLocked on a directory listing, and its result
    creq,             \* the cancelDownload requests
    cpc,              \* where each cancelDownload handler, then its listener, stands
    cancelListeners,  \* cancelDownload listeners of the commandSink, as attached
    ov,               \* the overlay composer: "idle" | "checked" | "mounted"
    co,               \* the coordinator process (lifecycleManager)
    pongs,            \* ping replies published and not yet read by the coordinator
    replies,          \* request replies published and not yet read by the coordinator
    peer              \* what the coordinator's peers have been sent

vars == << locks, driver, proc, req, pc, spinLeft, runningDownloads, out,
           manifestCached, toolPresent, child, runs, sigterm, exited, forwarder,
           downloadDir, lastLog, received, probe,
           creq, cpc, cancelListeners, ov, co, pongs, replies, peer >>

coVars == << co, pongs, replies, peer >>
toolVars == << child, runs, sigterm, exited, forwarder, downloadDir >>
cancelVars == << creq, cpc, cancelListeners >>
logVars == << lastLog, received >>

NoReq == [gameId |-> "", mfa |-> FALSE, instanceId |-> "", repoUrl |-> FALSE,
          repoDir |-> FALSE, action |-> ""]

\* No call of isLocked is being followed.
NoProbe == [files |-> << >>, pattern |-> ExactPat(<< >>), stale |-> 0, result |-> "none"]

Absent == [state |-> "absent", request |-> "none", sinks |-> FALSE]
Emptied == [state |-> "empty", request |-> "none", sinks |-> FALSE]
TaskRecord(r) == [state |-> "task", request |-> r, sinks |-> FALSE]

\* The messages of the request/reply convention; "-" is a field the payload lacks.
Msg(sub, subscribeTo, status, reason) ==
    [sub |-> sub, subscribeTo |-> subscribeTo, status |-> status, reason |-> reason]
AckMsg(r) == Msg("ack", r, "-", "-")
NackMsg(owner) == Msg("nack", owner, "-", "already requested")
ErrorMsg(text) == Msg("error", "-", "-", text)
FinalMsg(status, reason) == Msg("finalStatus", "-", status, reason)

\* sendRequestReply(moduleIdent, ipc, subchannel, message, info)
SendRequestReply(o, ch, m) == [o EXCEPT ![ch] = Append(@, m)]

IsTerminal(m) == m.sub \in {"finalStatus", "error"}
Terminals(ch) == Len(SelectSeq(out[ch], IsTerminal))
Has(ch, sub) == \E k \in 1..Len(out[ch]) : out[ch][k].sub = sub

(***************************************************************************)
(* A handler's turn is written as a chain of operators on a record of the  *)
(* variables it may change; the action commits the record the chain ends   *)
(* with.  Choices the environment makes during the turn are parameters.    *)
(***************************************************************************)
Now ==
    [locks |-> locks, proc |-> proc, pc |-> pc, spinLeft |-> spinLeft,
     rd |-> runningDownloads, out |-> out, manifest |-> manifestCached,
     tool |-> toolPresent, child |-> child, runs |-> runs, sigterm |-> sigterm,
     exited |-> exited, fw |-> forwarder, dir |-> downloadDir,
     cpc |-> cpc, cl |-> cancelListeners]

Commit(s) ==
    /\ locks' = s.locks
    /\ proc' = s.proc
    /\ pc' = s.pc
    /\ spinLeft' = s.spinLeft
    /\ runningDownloads' = s.rd
    /\ out' = s.out
    /\ manifestCached' = s.manifest
    /\ toolPresent' = s.tool
    /\ child' = s.child
    /\ runs' = s.runs
    /\ sigterm' = s.sigterm
    /\ exited' = s.exited
    /\ forwarder' = s.fw
    /\ downloadDir' = s.dir
    /\ UNCHANGED << logVars, probe >>
    /\ cpc' = s.cpc
    /\ cancelListeners' = s.cl

Goto(s, r, p) == [s EXCEPT !.pc[r] = p]
Reply(s, ch, m) == [s EXCEPT !.out = SendRequestReply(@, ch, m)]

\* An exception no handler catches: the rejection of the async handler is
\* unhandled, which ends a Node.js (>= 20) process.
Throw(s, r) == [Goto(s, r, "threw") EXCEPT !.proc = "crashed"]

(***************************************************************************)
(* The download driver: downloadUpdateGame.                                *)
(***************************************************************************)
supportedGames == {"csgo"}

\* app/manifests/csgo.mjs
Manifest == [name |-> "csgo", downloadType |-> "steamcmd", downloadId |-> "740"]

\* The catch of the steamcmd branch with error != null, up to its await.
DlToolError(s, r, text) == Goto(Reply(s, r, ErrorMsg(text)), r, "releasingErr")

\* The n-th child that runSteamCmd spawns for task r.
ToolChild(r, n) == [task |-> r, run |-> n]
NoChild == ToolChild("none", 0)

\* The forwarder as the module creates it: no exitSignal listener.  listeners
\* holds the child each listener kills, in the order the listeners were
\* added; spawned remembers the child of the latest pty.spawn.
NoForwarder == [listeners |-> << >>, spawned |-> NoChild]

\* A runSteamCmd that adds its exitSignal listener to those already there.
SpawnKeepListeners(s, r, n) ==
    [s EXCEPT !.child[r] = "alive",
              !.fw = [listeners |-> Append(@.listeners, ToolChild(r, n)),
                      spawned |-> ToolChild(r, n)]]

\* runSteamCmd from pty.spawn on: the child lives, and the forwarder drops
\* every listener it has before it gets the one that kills this child.
Spawn(s, r, n) ==
    [s EXCEPT !.child[r] = "alive",
              !.fw = [listeners |-> << ToolChild(r, n) >>,
                      spawned |-> ToolChild(r, n)]]

\* steamCmdDownloadAppid: the checks and the directory set-up may reject
\* (prepOk = FALSE); otherwise runSteamCmd registers its commandSink listener
\* and spawns the child.
DlRunTool(s, r, prepOk) ==
    IF prepOk
    THEN [Spawn(Goto(s, r, "running"), r, 1) EXCEPT !.runs[r] = <<FALSE>>,
                                                    !.sigterm[r] = FALSE,
                                                    !.dir = TRUE]
    ELSE DlToolError(s, r, "steamcmd set-up failed")

\* switch (gameInfo.downloadType), entered in the turn that sent ack.
\* steamCmdDownloadSelf resolves at once when the tool is installed.
DlDownloadSelf(s, r, prepOk) ==
    IF Manifest.downloadType = "steamcmd"
    THEN IF s.tool THEN DlRunTool(s, r, prepOk) ELSE Goto(s, r, "bootstrap")
    ELSE Goto(Reply(s, r, ErrorMsg("unsupported request")), r, "releasingErr")

\* A 'preparing' step that does not look at steamcmdMultiFactorEnabled.
DlPrepareAnyAuth(s, r, prepOk) ==
    DlDownloadSelf(
        Reply([s EXCEPT !.rd[req[r].gameId].sinks = TRUE, !.cl = << >>], r, AckMsg(r)),
        r, prepOk)

\* From 'preparing' to ack.
DlPrepare(s, r, prepOk) ==
    LET g == req[r].gameId IN
    IF req[r].mfa
    THEN Goto([Reply(s, r, ErrorMsg("multifactor auth not supported"))
                  EXCEPT !.rd[g] = Absent], r, "unlocking")
    ELSE DlDownloadSelf(
             Reply([s EXCEPT !.rd[g].sinks = TRUE, !.cl = << >>], r, AckMsg(r)),
             r, prepOk)

\* One poll of spinClear(baseMountLockCheckPattern, 30) and what follows it.
DlSpinClearBaseMount(s, r, left, prepOk) ==
    LET g == req[r].gameId
        baseMountLockCheckPattern == PrefixPat(<<"baseMount", "-", g, "-">>)
        res == SpinResult(IsLocked(s.locks, baseMountLockCheckPattern), left)
    IN CASE res = "clear" -> DlPrepare(s, r, prepOk)
         [] res = "timeout" ->
              Goto([Reply(s, r, ErrorMsg("Timeout exceeded"))
                       EXCEPT !.rd[g] = Absent], r, "unlocking")
         [] res = "wait" -> [Goto(s, r, "clearwait") EXCEPT !.spinLeft[r] = left - 1]

\* acquireLock(globalLockId) inside spinLock, and the handler's continuation.
DlAcquireGlobal(s, r, prepOk) ==
    LET g == req[r].gameId
        globalLockId == DownloadGameLock(g)
    IN IF CanAcquire(s.locks, globalLockId)
       THEN DlSpinClearBaseMount(
                [s EXCEPT !.locks = AcquireLock(@, globalLockId, "dl")],
                r, SpinTimeout, prepOk)
       ELSE Goto(Reply([s EXCEPT !.rd[g] = Absent], r, ErrorMsg("EEXIST")),
                 r, "done")

\* One poll of the spinClear(globalLockId, 30) inside spinLock.
DlSpinClearGlobal(s, r, left) ==
    LET g == req[r].gameId
        res == SpinResult(IsLocked(s.locks, SubstrPat(DownloadGameLock(g))), left)
    IN CASE res = "clear" -> Goto(s, r, "acquire")
         [] res = "timeout" ->
              Goto(Reply([s EXCEPT !.rd[g] = Absent], r,
                         ErrorMsg("Timeout exceeded")), r, "done")
         [] res = "wait" -> [Goto(s, r, "spin") EXCEPT !.spinLeft[r] = left - 1]

\* downloadUpdateGame without the duplicate check: every request that gets
\* here creates the task record.
DlDedupUnchecked(s, r) ==
    DlSpinClearGlobal([s EXCEPT !.rd[req[r].gameId] = TaskRecord(r)], r, SpinTimeout)

\* A downloadUpdateGame that starts the tool for every request it gets,
\* with neither the duplicate check nor the wait for the global lock.
DlDedupStraightToTool(s, r) ==
    DlRunTool([s EXCEPT !.rd[req[r].gameId] = [TaskRecord(r) EXCEPT !.sinks = TRUE]],
              r, TRUE)

\* A downloadUpdateGame that acks as soon as it has created the task record.
DlDedupAckEarly(s, r) ==
    LET g == req[r].gameId IN
    IF s.rd[g].state = "absent"
    THEN DlSpinClearGlobal(Reply([s EXCEPT !.rd[g] = TaskRecord(r)], r, AckMsg(r)),
                           r, SpinTimeout)
    ELSE IF s.rd[g].state = "task"
    THEN Goto(Reply(s, r, NackMsg(s.rd[g].request)), r, "done")
    ELSE Throw(s, r)

\* The duplicate check and the creation of the task record.
DlDedup(s, r) ==
    LET g == req[r].gameId IN
    IF s.rd[g].state = "absent"
    THEN DlSpinClearGlobal([s EXCEPT !.rd[g] = TaskRecord(r)], r, SpinTimeout)
    ELSE IF s.rd[g].state = "task"
    THEN Goto(Reply(s, r, NackMsg(s.rd[g].request)), r, "done")
    ELSE Throw(s, r)

(***************************************************************************)
(* The tool child (lib/steamcmd.mjs, runSteamCmd) and cancelDownload.      *)
(***************************************************************************)
ExitCodes == {0, 1, 42}

\* commandSink.push({status: 'ackCanceled'}) reaches the cancelDownload
\* listeners in the order they were attached.  The first answers its
\* requester, removes all listeners and blanks the task record; emit still
\* calls the second, which answers and then reads commandSink of the blanked
\* record: a TypeError nobody catches.  With cleanup set a listener removes
\* request.downloadDir of the record before it answers; the second listener
\* finds no request in the blanked record, and its rmSync call throws
\* inside the try block before anything is removed.
AckCanceled(s, r) ==
    LET g == req[r].gameId
        n == Len(s.cl)
        heard == {s.cl[k] : k \in 1..(IF n > 2 THEN 2 ELSE n)}
    IN IF n = 0 THEN s
       ELSE [s EXCEPT !.out = [ch \in DOMAIN @ |->
                                  IF ch \in heard
                                  THEN Append(@[ch], FinalMsg("canceled", "-"))
                                  ELSE @[ch]],
                      !.cpc = [c \in DOMAIN @ |->
                                  IF c = s.cl[1] THEN "done"
                                  ELSE IF c \in heard THEN "failed"
                                  ELSE @[c]],
                      !.rd[g] = Emptied,
                      !.cl = << >>,
                      !.dir = IF creq[s.cl[1]].cleanup THEN FALSE ELSE @,
                      !.proc = IF n > 1 THEN "crashed" ELSE @]

\* An onExit that takes exit code 42 for a failure instead of re-launching.
OnExitNoRelaunch(s, r, code) ==
    LET gone == [s EXCEPT !.exited[r] = Append(@, code), !.child[r] = "exited"] IN
    IF s.runs[r][Len(s.runs[r])]
    THEN Goto(Reply(AckCanceled(gone, r), r, FinalMsg("canceled", "canceled")), r, "releasing")
    ELSE IF code = 0
    THEN Goto(Reply(gone, r, FinalMsg("completed", "completed")), r, "releasing")
    ELSE DlToolError(gone, r, "steamcmd failed")

\* An onExit that tests exit code 42 before cancelInProgress.
OnExitRelaunchFirst(s, r, code) ==
    LET n == Len(s.runs[r])
        seen == [s EXCEPT !.exited[r] = Append(@, code)]
        gone == [seen EXCEPT !.child[r] = "exited"]
    IN IF code = 42
       THEN [Spawn(seen, r, n + 1) EXCEPT !.runs[r] = Append(@, FALSE),
                                          !.sigterm[r] = FALSE]
       ELSE IF s.runs[r][n]
       THEN Goto(Reply(AckCanceled(gone, r), r, FinalMsg("canceled", "canceled")), r, "releasing")
       ELSE IF code = 0
       THEN Goto(Reply(gone, r, FinalMsg("completed", "completed")), r, "releasing")
       ELSE DlToolError(gone, r, "steamcmd failed")

\* steamcmdChild.onExit of the latest invocation, and, when it settles the
\* promise, the continuation of downloadUpdateGame up to its next await.
OnExit(s, r, code) ==
    LET n == Len(s.runs[r])
        seen == [s EXCEPT !.exited[r] = Append(@, code)]
        gone == [seen EXCEPT !.child[r] = "exited"]
    IN IF s.runs[r][n]
       THEN LET a == AckCanceled(gone, r) IN
            IF a.proc = "crashed" THEN a
            ELSE Goto(Reply(a, r, FinalMsg("canceled", "canceled")), r, "releasing")
       ELSE IF code = 42
       THEN [Spawn(seen, r, n + 1) EXCEPT !.runs[r] = Append(@, FALSE),
                                          !.sigterm[r] = FALSE]
       ELSE IF code = 0
       THEN Goto(Reply(gone, r, FinalMsg("completed", "completed")), r, "releasing")
       ELSE DlToolError(gone, r, "steamcmd failed")

\* cancelDownload: push the cancel command, then listen for ackCanceled.
\* Every runSteamCmd listener of the sink sets its cancelInProgress and
\* signals its child; with no such listener yet the command reaches only
\* cancelDownload's own listener, which ignores it.
CancelDownload(s, c) ==
    LET g == creq[c].gameIdToCancel IN
    IF s.rd[g].state = "absent"
    THEN [s EXCEPT !.cpc[c] = "ignored"]
    ELSE IF ~s.rd[g].sinks
    THEN [s EXCEPT !.cpc[c] = "threw", !.proc = "crashed"]
    ELSE LET r == s.rd[g].request IN
         [s EXCEPT !.runs[r] = [k \in DOMAIN @ |-> TRUE],
                   !.sigterm[r] = @ \/ (s.child[r] = "alive"),
                   !.cl = Append(@, c),
                   !.cpc[c] = "waiting"]

(***************************************************************************)
(* Actions of the download driver.                                         *)
(***************************************************************************)
\* Callbacks of pending work run only while the process lives; after exit()
\* ("exiting") it still lives, but its queue delivers no more messages.
Running == proc \in {"up", "exiting"}

\* A client publishes downloadManager.downloadUpdateGame.
SendDownloadRequest(r) ==
    /\ driver = "download" /\ proc = "up"
    /\ pc[r] = "new"
    /\ \A q \in Before(r) : pc[q] # "new"
    /\ \E g \in {"csgo", "xyzzy", ""}, m \in BOOLEAN :
          req' = [req EXCEPT ![r] = [NoReq EXCEPT !.gameId = g, !.mfa = m]]
    /\ pc' = [pc EXCEPT ![r] = "sent"]
    /\ UNCHANGED << locks, driver, coVars, proc, spinLeft, runningDownloads, out,
                    manifestCached, toolPresent, toolVars, logVars, probe, cancelVars, ov >>

\* downloadUpdateGame up to await loadManifest.
DlReceive(r) ==
    /\ driver = "download" /\ proc = "up"
    /\ pc[r] = "sent"
    /\ Commit(IF req[r].gameId = ""
              THEN Goto(Reply(Now, r, ErrorMsg("gameId required")), r, "done")
              ELSE IF req[r].gameId \notin supportedGames
              THEN Goto(Reply(Now, r, ErrorMsg("gameId unsupported")), r, "done")
              ELSE Goto(Now, r, "manifest"))
    /\ UNCHANGED << driver, coVars, req, creq, ov >>

\* loadManifest settles: the import fails only while the module is not cached.
DlManifestLoaded(r) ==
    /\ driver = "download" /\ Running
    /\ pc[r] = "manifest"
    /\ \E ok \in BOOLEAN :
          /\ manifestCached => ok
          /\ Commit(IF ok
                    THEN DlDedup([Now EXCEPT !.manifest = TRUE], r)
                    ELSE Goto(Reply(Now, r, ErrorMsg("manifest")), r, "unlocking"))
    /\ UNCHANGED << driver, coVars, req, creq, ov >>

\* The sleep of the spinClear loop the handler awaits ends: its next poll.
DlSpinTick(r) ==
    /\ driver = "download" /\ Running
    /\ pc[r] \in {"spin", "clearwait"}
    /\ \E prepOk \in BOOLEAN :
          Commit(IF pc[r] = "spin"
                 THEN DlSpinClearGlobal(Now, r, spinLeft[r])
                 ELSE DlSpinClearBaseMount(Now, r, spinLeft[r], prepOk))
    /\ UNCHANGED << driver, coVars, req, creq, ov >>

DlAcquire(r) ==
    /\ driver = "download" /\ Running
    /\ pc[r] = "acquire"
    /\ \E prepOk \in BOOLEAN : Commit(DlAcquireGlobal(Now, r, prepOk))
    /\ UNCHANGED << driver, coVars, req, creq, ov >>

\* downloadFile of steamCmdDownloadSelf settles.
DlBootstrapDone(r) ==
    /\ driver = "download" /\ Running
    /\ pc[r] = "bootstrap"
    /\ \E ok \in BOOLEAN, prepOk \in BOOLEAN :
          Commit(IF ok THEN DlRunTool([Now EXCEPT !.tool = TRUE], r, prepOk)
                 ELSE DlToolError(Now, r, "steamcmd download failed"))
    /\ UNCHANGED << driver, coVars, req, creq, ov >>

\* The tool child exits; max caps the invocations the run follows.
ChildExitWithin(r, max) ==
    /\ driver = "download" /\ Running
    /\ pc[r] = "running" /\ child[r] = "alive"
    /\ \E code \in ExitCodes :
          /\ code = 42 => Len(runs[r]) < max
          /\ Commit(OnExit(Now, r, code))
    /\ UNCHANGED << driver, coVars, req, creq, ov >>

ChildExit(r) == ChildExitWithin(r, MaxSpawns)

\* await releaseLock(globalLockId) settles; then delete the task record.
DlReleased(r) ==
    /\ driver = "download" /\ Running
    /\ pc[r] = "releasing"
    /\ Commit(Goto([Now EXCEPT !.locks = ReleaseLock(@, DownloadGameLock(req[r].gameId)),
                               !.rd[req[r].gameId] = Absent], r, "done"))
    /\ UNCHANGED << driver, coVars, req, creq, ov >>

\* await releaseLock(globalLockId) settles; then runningDownloads[gameId] = {}.
DlReleasedErr(r) ==
    /\ driver = "download" /\ Running
    /\ pc[r] = "releasingErr"
    /\ Commit(Goto([Now EXCEPT !.locks = ReleaseLock(@, DownloadGameLock(req[r].gameId)),
                               !.rd[req[r].gameId] = Emptied], r, "done"))
    /\ UNCHANGED << driver, coVars, req, creq, ov >>

\* await releaseLock(globalLockId) settles; then return.
DlUnlocked(r) ==
    /\ driver = "download" /\ Running
    /\ pc[r] = "unlocking"
    /\ Commit(Goto([Now EXCEPT !.locks = ReleaseLock(@, DownloadGameLock(req[r].gameId))],
                   r, "done"))
    /\ UNCHANGED << driver, coVars, req, creq, ov >>

\* A client publishes downloadManager.cancelDownload.
SendCancel(c) ==
    /\ driver = "download" /\ proc = "up"
    /\ cpc[c] = "new"
    /\ \A d \in Before(c) : cpc[d] # "new"
    /\ \E cleanup \in BOOLEAN :
          creq' = [creq EXCEPT ![c] = [gameIdToCancel |-> "csgo", cleanup |-> cleanup]]
    /\ cpc' = [cpc EXCEPT ![c] = "sent"]
    /\ UNCHANGED << locks, driver, coVars, proc, req, pc, spinLeft, runningDownloads, out,
                    manifestCached, toolPresent, toolVars, logVars, probe, cancelListeners, ov >>

DlCancel(c) ==
    /\ driver = "download" /\ proc = "up"
    /\ cpc[c] = "sent"
    /\ Commit(CancelDownload(Now, c))
    /\ UNCHANGED << driver, coVars, req, creq, ov >>

(***************************************************************************)
(* The repo driver: downloadUpdateRepo.                                    *)
(***************************************************************************)
gitActions == {"clone", "pull"}

\* From the sinks to the switch on request.action and the start of git.
RpPrepare(s, r) ==
    LET i == req[r].instanceId
        acked == Reply([s EXCEPT !.rd[i].sinks = TRUE], r, AckMsg(r))
    IN IF req[r].action \in gitActions
       THEN Goto(acked, r, "git")
       ELSE Goto([Reply(acked, r, ErrorMsg("unsupported git action"))
                     EXCEPT !.rd[i] = Absent], r, "unlocking")

\* One poll of spinClear(configMountLockCheckPattern, 30) and what follows it.
RpSpinClearConfigMount(s, r, left) ==
    LET i == req[r].instanceId
        configMountLockCheckPattern == ExactPat(<<"configMount", "-", i>>)
        res == SpinResult(IsLocked(s.locks, configMountLockCheckPattern), left)
    IN CASE res = "clear" -> RpPrepare(s, r)
         [] res = "timeout" ->
              Goto([Reply(s, r, ErrorMsg("Timeout exceeded"))
                       EXCEPT !.rd[i] = Absent], r, "unlocking")
         [] res = "wait" -> [Goto(s, r, "clearwait") EXCEPT !.spinLeft[r] = left - 1]

\* acquireLock(globalLockId) inside spinLock, and the handler's continuation.
RpAcquireGlobal(s, r) ==
    LET globalLockId == RepoDownloadLock(req[r].instanceId) IN
    IF CanAcquire(s.locks, globalLockId)
    THEN RpSpinClearConfigMount(
             [s EXCEPT !.locks = AcquireLock(@, globalLockId, "repo")], r, SpinTimeout)
    ELSE Goto(Reply(s, r, ErrorMsg("EEXIST")), r, "done")

\* One poll of the spinClear(globalLockId, 30) inside spinLock.
RpSpinClearGlobal(s, r, left) ==
    LET globalLockId == RepoDownloadLock(req[r].instanceId)
        res == SpinResult(IsLocked(s.locks, SubstrPat(globalLockId)), left)
    IN CASE res = "clear" -> Goto(s, r, "acquire")
         [] res = "timeout" -> Goto(Reply(s, r, ErrorMsg("Timeout exceeded")), r, "done")
         [] res = "wait" -> [Goto(s, r, "spin") EXCEPT !.spinLeft[r] = left - 1]

\* The duplicate check and the creation of the task record.
RpDedup(s, r) ==
    LET i == req[r].instanceId IN
    IF s.rd[i].state = "absent"
    THEN RpSpinClearGlobal([s EXCEPT !.rd[i] = TaskRecord(r)], r, SpinTimeout)
    ELSE Goto(Reply(s, r, NackMsg(s.rd[i].request)), r, "done")

\* A downloadUpdateRepo that does not look at repoUrl and repoDir.
RpValidateNothing(s, r) == RpDedup(s, r)

\* The checks downloadUpdateRepo makes on the request.
RpValidate(s, r) ==
    IF ~req[r].repoUrl
    THEN Goto(Reply(s, r, ErrorMsg("repoUrl required")), r, "done")
    ELSE IF ~req[r].repoDir
    THEN Goto(Reply(s, r, ErrorMsg("repoDir required")), r, "done")
    ELSE RpDedup(s, r)

\* The end of the git work: finalStatus or error, delete the record, and
\* await releaseLock(globalLockId).
RpGitEnd(s, r, ok) ==
    LET i == req[r].instanceId
        m == IF ok THEN FinalMsg("completed", "-") ELSE ErrorMsg("git failed")
    IN Goto([Reply(s, r, m) EXCEPT !.rd[i] = Absent], r, "unlocking")

\* A client publishes configManager.downloadUpdateRepo.
SendRepoRequest(r) ==
    /\ driver = "repo" /\ proc = "up"
    /\ pc[r] = "new"
    /\ \A q \in Before(r) : pc[q] # "new"
    /\ \E u \in BOOLEAN, d \in BOOLEAN, a \in {"clone", "pull", "push"} :
          /\ (~u \/ ~d) => a = "clone"
          /\ req' = [req EXCEPT ![r] = [NoReq EXCEPT !.instanceId = "srv", !.repoUrl = u,
                                                     !.repoDir = d, !.action = a]]
    /\ pc' = [pc EXCEPT ![r] = "sent"]
    /\ UNCHANGED << locks, driver, coVars, proc, spinLeft, runningDownloads, out,
                    manifestCached, toolPresent, toolVars, logVars, probe, cancelVars, ov >>

RpReceive(r) ==
    /\ driver = "repo" /\ proc = "up"
    /\ pc[r] = "sent"
    /\ Commit(RpValidate(Now, r))
    /\ UNCHANGED << driver, coVars, req, creq, ov >>

\* The sleep of the spinClear loop the handler awaits ends: its next poll.
RpSpinTick(r) ==
    /\ driver = "repo" /\ Running
    /\ pc[r] \in {"spin", "clearwait"}
    /\ Commit(IF pc[r] = "spin"
              THEN RpSpinClearGlobal(Now, r, spinLeft[r])
              ELSE RpSpinClearConfigMount(Now, r, spinLeft[r]))
    /\ UNCHANGED << driver, coVars, req, creq, ov >>

RpAcquire(r) ==
    /\ driver = "repo" /\ Running
    /\ pc[r] = "acquire"
    /\ Commit(RpAcquireGlobal(Now, r))
    /\ UNCHANGED << driver, coVars, req, creq, ov >>

\* git clone / pull and checkout settle.
RpGitDone(r) ==
    /\ driver = "repo" /\ Running
    /\ pc[r] = "git"
    /\ \E ok \in BOOLEAN : Commit(RpGitEnd(Now, r, ok))
    /\ UNCHANGED << driver, coVars, req, creq, ov >>

RpUnlocked(r) ==
    /\ driver = "repo" /\ Running
    /\ pc[r] = "unlocking"
    /\ Commit(Goto([Now EXCEPT !.locks = ReleaseLock(@, RepoDownloadLock(req[r].instanceId))],
                   r, "done"))
    /\ UNCHANGED << driver, coVars, req, creq, ov >>

(***************************************************************************)
(* The overlay composer of instance (csgo, srv), from the documented lock  *)
(* contract: it mounts only when downloadGame-<g> is not held, takes       *)
(* baseMount-<g>-<i> and configMount-<g>-<i> as a pair, and releases both  *)
(* on unmount.                                                             *)
(***************************************************************************)
OvGame == "csgo"
OvInstance == "srv"

OvPrecondition(dir) == ~IsLocked(dir, ExactPat(DownloadGameLock(OvGame)))

OvAcquirePair(dir) ==
    AcquireLock(AcquireLock(dir, BaseMountLock(OvGame, OvInstance), "ov"),
                ConfigMountLock(OvGame, OvInstance), "ov")

OvReleasePair(dir) ==
    ReleaseLock(ReleaseLock(dir, BaseMountLock(OvGame, OvInstance)),
                ConfigMountLock(OvGame, OvInstance))

OvCheck ==
    /\ ov = "idle"
    /\ OvPrecondition(locks)
    /\ ov' = "checked"
    /\ UNCHANGED << locks, driver, coVars, proc, req, pc, spinLeft, runningDownloads, out,
                    manifestCached, toolPresent, toolVars, logVars, probe, cancelVars >>

OvMount ==
    /\ ov = "checked"
    /\ CanAcquire(locks, BaseMountLock(OvGame, OvInstance))
    /\ CanAcquire(locks, ConfigMountLock(OvGame, OvInstance))
    /\ locks' = OvAcquirePair(locks)
    /\ ov' = "mounted"
    /\ UNCHANGED << driver, coVars, proc, req, pc, spinLeft, runningDownloads, out,
                    manifestCached, toolPresent, toolVars, logVars, probe, cancelVars >>

OvUnmount ==
    /\ ov = "mounted"
    /\ locks' = OvReleasePair(locks)
    /\ ov' = "idle"
    /\ UNCHANGED << driver, coVars, proc, req, pc, spinLeft, runningDownloads, out,
                    manifestCached, toolPresent, toolVars, logVars, probe, cancelVars >>

\* The operator removes the lock file a killed earlier instance left behind.
OperatorCleanup ==
    /\ \E n \in LockNames : locks[n] = "prev"
    /\ locks' = [n \in LockNames |-> IF locks[n] = "prev" THEN NoOwner ELSE locks[n]]
    /\ UNCHANGED << driver, coVars, proc, req, pc, spinLeft, runningDownloads, out,
                    manifestCached, toolPresent, toolVars, logVars, probe, cancelVars, ov >>

(***************************************************************************)
(* The drivers in normal operation.                                        *)
(***************************************************************************)
\* The coordinator's waitModuleRunning calls: 1 awaits downloadManager, 2 configManager.
Calls == {1, 2}

\* A ping reply as the coordinator reads it: the call whose replyTo it was
\* published under, and the uptime it reports.
Pong(k, u) == [call |-> k, uptime |-> u]
NoPong == Pong(0, -1)

\* No coordinator process takes part in the run.
CoNone ==
    [stage |-> "none", resume |-> "none", code |-> -1, exitCode |-> -1,
     ended |-> -1, sinceExit |-> -1, ipcStopped |-> FALSE,
     spinLeft |-> 0, signaled |-> FALSE, terminalOn |-> "none",
     wait |-> [k \in Calls |-> "none"], pingCounter |-> [k \in Calls |-> 0],
     timer |-> [k \in Calls |-> FALSE], interval |-> 0,
     pongSub |-> [k \in Calls |-> FALSE], resolvedBy |-> [k \in Calls |-> NoPong],
     dl |-> "none", subs |-> {}, requests |-> << >>]

NoPeer == [pings |-> {}, request |-> "none"]

CoAbsent ==
    /\ co = CoNone
    /\ pongs = {}
    /\ replies = {}
    /\ peer = NoPeer

GlobalLockOf(d) == IF d = "download" THEN DownloadGameLock("csgo") ELSE RepoDownloadLock("srv")
ModuleIdent(d) == IF d = "download" THEN "downloadManager" ELSE "repoManager"
OwnerOf(d) == IF d = "download" THEN "dl" ELSE "repo"

\* After start-up: the driver holds its module lock, no task exists.  The
\* driver global lock of a killed earlier instance may still be there.
InitDriver(d, leftover, tool) ==
    /\ driver = d
    /\ locks = [n \in LockNames |->
                   IF n = ModuleLock(ModuleIdent(d)) THEN OwnerOf(d)
                   ELSE IF n = GlobalLockOf(d) /\ leftover THEN "prev"
                   ELSE NoOwner]
    /\ toolPresent = tool
    /\ proc = "up"
    /\ req = [r \in Reqs |-> NoReq]
    /\ pc = [r \in Reqs |-> "new"]
    /\ spinLeft = [r \in Reqs |-> 0]
    /\ runningDownloads = [k \in Keys |-> Absent]
    /\ out = [ch \in Reqs \cup Cancels |-> << >>]
    /\ manifestCached = FALSE
    /\ child = [r \in Reqs |-> "none"]
    /\ runs = [r \in Reqs |-> << >>]
    /\ sigterm = [r \in Reqs |-> FALSE]
    /\ exited = [r \in Reqs |-> << >>]
    /\ forwarder = NoForwarder
    /\ downloadDir = FALSE
    /\ lastLog = << >>
    /\ received = 0
    /\ probe = NoProbe
    /\ creq = [c \in Cancels |-> [gameIdToCancel |-> "csgo", cleanup |-> FALSE]]
    /\ cpc = [c \in Cancels |-> "new"]
    /\ cancelListeners = << >>
    /\ ov = "idle"
    /\ CoAbsent

Init ==
    \E d \in {"download", "repo"}, leftover \in BOOLEAN, tool \in BOOLEAN :
        /\ d = "repo" => ~tool
        /\ InitDriver(d, leftover, tool)

Next ==
    \/ \E r \in Reqs : SendDownloadRequest(r)
    \/ \E r \in Reqs : DlReceive(r)
    \/ \E r \in Reqs : DlManifestLoaded(r)
    \/ \E r \in Reqs : DlSpinTick(r)
    \/ \E r \in Reqs : DlAcquire(r)
    \/ \E r \in Reqs : DlBootstrapDone(r)
    \/ \E r \in Reqs : ChildExit(r)
    \/ \E r \in Reqs : DlReleased(r)
    \/ \E r \in Reqs : DlReleasedErr(r)
    \/ \E r \in Reqs : DlUnlocked(r)
    \/ \E c \in Cancels : SendCancel(c)
    \/ \E c \in Cancels : DlCancel(c)
    \/ \E r \in Reqs : SendRepoRequest(r)
    \/ \E r \in Reqs : RpReceive(r)
    \/ \E r \in Reqs : RpSpinTick(r)
    \/ \E r \in Reqs : RpAcquire(r)
    \/ \E r \in Reqs : RpGitDone(r)
    \/ \E r \in Reqs : RpUnlocked(r)
    \/ OvCheck
    \/ OvMount
    \/ OvUnmount
    \/ OperatorCleanup

Spec == Init /\ [][Next]_vars

(***************************************************************************)
(* Properties.                                                             *)
(***************************************************************************)
\* The task key of a request: gameId in the download driver, instanceId in
\* the repo driver.
Key(r) == IF driver = "download" THEN req[r].gameId ELSE req[r].instanceId

\* The task of request q is in flight: its record is in the task table and
\* no terminal message has been published under its replyTo.
InFlight(q) ==
    /\ Key(q) \in Keys
    /\ runningDownloads[Key(q)].state = "task"
    /\ runningDownloads[Key(q)].request = q
    /\ Terminals(q) = 0

\* The step in which the handler of r answers the request or makes it a task.
DedupStep(r) ==
    IF driver = "download"
    THEN pc[r] = "manifest" /\ pc'[r] # "manifest"
    ELSE pc[r] = "sent" /\ pc'[r] # "sent"

\* The step answers r with nack onto q and touches neither table nor child.
NackedOnto(r, q) ==
    /\ out' = [out EXCEPT ![r] = Append(@, NackMsg(q))]
    /\ runningDownloads' = runningDownloads
    /\ child' = child
    /\ runs' = runs
    /\ locks' = locks

\* The request carries what the repo driver checks before its duplicate check.
WellFormed(r) == driver = "repo" => (req[r].repoUrl /\ req[r].repoDir)

\* C1, as stated: while a task for key k is in flight, the handler of every
\* further request for k answers nack with subscribeTo naming the request in
\* flight, and creates no second task record and no second worker.
C1_EveryRequestNacked ==
    [][\A r \in Reqs, q \in Reqs :
          (q # r /\ InFlight(q) /\ Key(r) = Key(q) /\ DedupStep(r)) => NackedOnto(r, q)]_vars

\* C1, amended: the same for every further request for k that passes the
\* driver's checks of the request (repoUrl and repoDir present).
C1_WellFormedRequestNacked ==
    [][\A r \in Reqs, q \in Reqs :
          (q # r /\ InFlight(q) /\ Key(r) = Key(q) /\ WellFormed(r) /\ DedupStep(r))
              => NackedOnto(r, q)]_vars

\* C1, reached: a second request was deflected while the first was still
\* polling for its driver global lock.
C1_Witness ==
    \E r \in Reqs, q \in Reqs :
        /\ q # r /\ InFlight(q)
        /\ pc[q] \in {"spin", "acquire", "clearwait"}
        /\ out[r] = << NackMsg(q) >>

\* The handler of r is between the acquisition of the driver global lock and
\* the end of its releaseLock.
HoldsGlobal(r) ==
    pc[r] \in {"clearwait", "bootstrap", "running", "git",
               "releasing", "releasingErr", "unlocking"}

\* The handler of r is at work on a task: past the duplicate check, not returned.
AtWork(r) == pc[r] \in {"spin", "acquire"} \/ HoldsGlobal(r)

Last(q) == q[Len(q)]

\* C2: a request that was answered with ack never has two terminal messages,
\* and has exactly one once its handler has returned or its process has ended.
C2_ExactlyOneTerminal ==
    \A r \in Reqs :
        Has(r, "ack") =>
            /\ Terminals(r) <= 1
            /\ (pc[r] = "done" \/ proc = "crashed") => Terminals(r) = 1

\* C4: downloadGame-<g> and baseMount-<g>-<i> are never both held.
C4_NeverDownloadAndBaseMount ==
    ~ /\ locks[DownloadGameLock(OvGame)] = "dl"
      /\ locks[BaseMountLock(OvGame, OvInstance)] = "ov"

\* C5: configMount-<g>-<i> is never held while repoDownload-<i> is held.
C5_NeverConfigMountAndRepoDownload ==
    ~ /\ locks[RepoDownloadLock(OvInstance)] = "repo"
      /\ locks[ConfigMountLock(OvGame, OvInstance)] = "ov"

\* C6: when no handler is at work on a task for key k, the task table has
\* no entry for k.
C6_NoRecordAfterEnd ==
    \A k \in Keys :
        runningDownloads[k].state # "absent" =>
            \E r \in Reqs : AtWork(r) /\ Key(r) = k

C8_LockKeptOnPatternTimeout ==
    [][\A r \in Reqs :
          (/\ pc[r] = "unlocking"
           /\ out[r] = << ErrorMsg("Timeout exceeded") >>
           /\ pc'[r] = "done")
              => locks'[GlobalLockOf(driver)] = OwnerOf(driver)]_vars

\* C9: once a cancel was received while the tool child ran and the child has
\* exited, the last message to the original requester is finalStatus with
\* reason canceled, and none says completed.
C9_CancelEndsCanceled ==
    \A r \in Reqs :
        (sigterm[r] /\ child[r] = "exited") =>
            /\ out[r] # << >>
            /\ Last(out[r]) = FinalMsg("canceled", "canceled")
            /\ \A k \in 1..Len(out[r]) : out[r][k].status # "completed"

\* C10: after a cancel was received for a task, no tool child of the task
\* runs without having been sent SIGTERM, and no cancelDownload handler fails.
C10_PreSpawnCancelHonoured ==
    /\ \A c \in Cancels : cpc[c] # "threw"
    /\ \A r \in Reqs :
          (child[r] = "alive" /\ cancelListeners # << >>) => sigterm[r]

(***************************************************************************)
(* The lock service under contention: two processes that each take a lock  *)
(* with acquireLock or spinLock, hold it, and release it.  The variables   *)
(* req, pc, spinLeft and out are read per process here.                    *)
(***************************************************************************)
LockProcs == {"p1", "p2"}
LockOps == {"acquireLock", "spinLock"}
ScenarioLocks == {ScenarioLockA, ScenarioLockB}

\* acquireLock(lockId) as the process p sees it settle.
LkAcquireResult(dir, name) == IF CanAcquire(dir, name) THEN "held" ELSE "EEXIST"

\* One poll of the spinClear(lockId, timeout) inside spinLock.
LkSpinClear(dir, name, left) == SpinResult(IsLocked(dir, SubstrPat(name)), left)

LkAfterPoll(p, res, left) ==
    /\ pc' = [pc EXCEPT ![p] = CASE res = "clear" -> "acquire"
                                 [] res = "timeout" -> "failed"
                                 [] res = "wait" -> "spin"]
    /\ spinLeft' = [spinLeft EXCEPT ![p] = IF res = "wait" THEN left - 1 ELSE @]
    /\ out' = [out EXCEPT ![p] = IF res = "timeout" THEN << "Timeout exceeded" >> ELSE << >>]

\* The process calls acquireLock(name) or spinLock(name, SpinTimeout).
LkCall(p) ==
    /\ pc[p] = "idle"
    /\ \E op \in LockOps, name \in ScenarioLocks :
          /\ req' = [req EXCEPT ![p] = [op |-> op, name |-> name]]
          /\ IF op = "acquireLock"
             THEN /\ pc' = [pc EXCEPT ![p] = "acquire"]
                  /\ out' = [out EXCEPT ![p] = << >>]
                  /\ UNCHANGED spinLeft
             ELSE LkAfterPoll(p, LkSpinClear(locks, name, SpinTimeout), SpinTimeout)
    /\ UNCHANGED << locks, driver, coVars, proc, runningDownloads, manifestCached,
                    toolPresent, toolVars, logVars, probe, cancelVars, ov >>

LkPoll(p) ==
    /\ pc[p] = "spin"
    /\ LkAfterPoll(p, LkSpinClear(locks, req[p].name, spinLeft[p]), spinLeft[p])
    /\ UNCHANGED << locks, driver, coVars, proc, req, runningDownloads, manifestCached,
                    toolPresent, toolVars, logVars, probe, cancelVars, ov >>

\* lock.lock settles.
LkAcquire(p) ==
    /\ pc[p] = "acquire"
    /\ LET res == LkAcquireResult(locks, req[p].name) IN
          /\ locks' = IF res = "held" THEN AcquireLock(locks, req[p].name, p) ELSE locks
          /\ pc' = [pc EXCEPT ![p] = IF res = "held" THEN "held" ELSE "failed"]
          /\ out' = [out EXCEPT ![p] = << res >>]
    /\ UNCHANGED << driver, coVars, proc, req, spinLeft, runningDownloads, manifestCached,
                    toolPresent, toolVars, logVars, probe, cancelVars, ov >>

\* The holder calls releaseLock(name).
LkRelease(p) ==
    /\ pc[p] = "held"
    /\ locks' = ReleaseLock(locks, req[p].name)
    /\ pc' = [pc EXCEPT ![p] = "idle"]
    /\ UNCHANGED << driver, coVars, proc, req, spinLeft, out, runningDownloads, manifestCached,
                    toolPresent, toolVars, logVars, probe, cancelVars, ov >>

\* The caller whose call was rejected goes on.
LkGiveUp(p) ==
    /\ pc[p] = "failed"
    /\ pc' = [pc EXCEPT ![p] = "idle"]
    /\ UNCHANGED << locks, driver, coVars, proc, req, spinLeft, out, runningDownloads,
                    manifestCached, toolPresent, toolVars, logVars, probe, cancelVars, ov >>

InitLock ==
    /\ driver = "none"
    /\ proc = "up"
    /\ locks = [n \in LockNames |-> NoOwner]
    /\ req = [p \in LockProcs |-> [op |-> "acquireLock", name |-> ScenarioLockA]]
    /\ pc = [p \in LockProcs |-> "idle"]
    /\ spinLeft = [p \in LockProcs |-> 0]
    /\ out = [p \in LockProcs |-> << >>]
    /\ runningDownloads = [k \in Keys |-> Absent]
    /\ manifestCached = FALSE
    /\ toolPresent = FALSE
    /\ child = [r \in Reqs |-> "none"]
    /\ runs = [r \in Reqs |-> << >>]
    /\ sigterm = [r \in Reqs |-> FALSE]
    /\ exited = [r \in Reqs |-> << >>]
    /\ forwarder = NoForwarder
    /\ downloadDir = FALSE
    /\ lastLog = << >>
    /\ received = 0
    /\ probe = NoProbe
    /\ creq = [c \in Cancels |-> [gameIdToCancel |-> "csgo", cleanup |-> FALSE]]
    /\ cpc = [c \in Cancels |-> "new"]
    /\ cancelListeners = << >>
    /\ ov = "idle"
    /\ CoAbsent

NextLock ==
    \/ \E p \in LockProcs : LkCall(p)
    \/ \E p \in LockProcs : LkPoll(p)
    \/ \E p \in LockProcs : LkAcquire(p)
    \/ \E p \in LockProcs : LkRelease(p)
    \/ \E p \in LockProcs : LkGiveUp(p)

SpecLock == InitLock /\ [][NextLock]_vars

\* The processes whose acquireLock or spinLock of n succeeded and who have
\* not released n.
Holders(n) == {p \in LockProcs : pc[p] = "held" /\ req[p].name = n}

InitTool == \E leftover \in BOOLEAN, tool \in BOOLEAN : InitDriver("download", leftover, tool)

NextTool ==
    \/ SendDownloadRequest("r1")
    \/ DlReceive("r1")
    \/ DlManifestLoaded("r1")
    \/ DlSpinTick("r1")
    \/ DlAcquire("r1")
    \/ DlBootstrapDone("r1")
    \/ ChildExitWithin("r1", ToolMaxSpawns)
    \/ DlReleased("r1")
    \/ DlReleasedErr("r1")
    \/ DlUnlocked("r1")
    \/ SendCancel("c1")
    \/ DlCancel("c1")
    \/ OperatorCleanup

SpecTool == InitTool /\ [][NextTool]_vars

\* Every child of the task but the last one exited with code 42.
AllRespawned(r) == \A k \in 1..(Len(exited[r]) - 1) : exited[r][k] = 42

\* C11: a child that exits with code 42 while no cancel is in progress is
\* followed by a new child on the same streams, with nothing published; and
\* when the child spawned after such exits ends with code 0, the task has one
\* terminal message, finalStatus with reason completed.
C11_RespawnThenCompleted ==
    /\ [](\A r \in Reqs :
            (/\ Len(exited[r]) >= 2 /\ AllRespawned(r)
             /\ Last(exited[r]) = 0 /\ ~Last(runs[r]))
                => /\ Terminals(r) = 1
                   /\ Last(out[r]) = FinalMsg("completed", "completed")
                   /\ Len(runs[r]) = Len(exited[r]))
    /\ [][\A r \in Reqs :
            (/\ pc[r] = "running" /\ ~Last(runs[r])
             /\ exited'[r] = Append(exited[r], 42))
                => /\ child'[r] = "alive"
                   /\ runs'[r] = Append(runs[r], FALSE)
                   /\ runningDownloads' = runningDownloads
                   /\ cancelListeners' = cancelListeners
                   /\ out' = out /\ locks' = locks]_vars

\* C11, reached: the first child exited 42, the second 0, and the task ended
\* completed.
C11_Witness ==
    \E r \in Reqs :
        /\ exited[r] = << 42, 0 >>
        /\ Last(out[r]) = FinalMsg("completed", "completed")

\* C12: a task re-spawns the tool at most five times.
C12_RespawnsCapped == \A r \in Reqs : Len(runs[r]) <= 5 + 1

\* The spinLock of p ends with the Timeout error in this step.
LkTimesOut(p) ==
    /\ pc[p] = "spin" \/ pc[p] = "idle"
    /\ pc'[p] = "failed"
    /\ out'[p] = << "Timeout exceeded" >>

\* C13: spinLock(N, t) fails with Timeout only at a poll that finds N held,
\* and without acquiring N: once the holder of N has released, the wait
\* ends and spinLock goes on to acquire.
C13_TimeoutOnlyWhileHeld ==
    [][\A p \in LockProcs :
          LkTimesOut(p) => (locks[req'[p].name] # NoOwner /\ locks' = locks)]_vars

\* C14: the driver's spinLock never spends its budget on a lock whose holder
\* has exited without releasing it.
C14_DeadHolderNeverBlocks ==
    [][\A r \in Reqs :
          (/\ pc[r] = "spin" /\ pc'[r] = "done"
           /\ out'[r] = << ErrorMsg("Timeout exceeded") >>)
              => locks[GlobalLockOf(driver)] # "prev"]_vars

(***************************************************************************)
(* The coordinator (lifecycleManager): its start sequence against peers    *)
(* that answer pings and the download request as the drivers above do.     *)
(* One step is one turn of the coordinator's event loop, or one message a  *)
(* peer publishes.                                                         *)
(***************************************************************************)
\* waitModuleRunning('downloadManager', {timeout: 60}) and the default budget.
DownloadManagerTimeout == 60
DefaultTimeout == 30
\* Every call with the default budget.
TimeoutDefault(k) == DefaultTimeout
Timeout(k) == IF k = 1 THEN DownloadManagerTimeout ELSE DefaultTimeout

\* pingReply.uptime >= 5
ReadyUptime == 5

\* exit() arms a 5000 ms timer; the ping interval is 1000 ms and is armed
\* later in the same turn, so four of its ticks come before the timer.
WatchdogMs == 5000
PingIntervalMs == 1000
WatchdogTicks == (WatchdogMs - 1) \div PingIntervalMs

\* process.uptime() as the peers report it.
Uptimes == {4, 5}

\* The request the coordinator publishes, and the request of another client
\* that may own the task already.
CoRequest == "r1"
OtherRequest == "r2"

drvVars == << driver, proc, req, pc, spinLeft, runningDownloads, out,
              manifestCached, toolPresent, toolVars, logVars, probe, cancelVars, ov >>

CoNow == [c |-> co, locks |-> locks, pongs |-> pongs, replies |-> replies, peer |-> peer]

CoCommit(s) ==
    /\ co' = s.c
    /\ locks' = s.locks
    /\ pongs' = s.pongs
    /\ replies' = s.replies
    /\ peer' = s.peer
    /\ UNCHANGED drvVars

CoRunning == co.stage # "none" /\ co.ended = -1

\* waitModuleRunning up to its return: the interval is stored in the shared
\* intervals.waitDownloadManagerAvailablePing, the pong topic is subscribed.
WaitModuleRunning(s, k) ==
    [s EXCEPT !.c.wait[k] = "pending", !.c.pingCounter[k] = 0, !.c.timer[k] = TRUE,
              !.c.interval = k, !.c.pongSub[k] = TRUE]

\* clearInterval(intervals.waitDownloadManagerAvailablePing)
ClearInterval(s) ==
    IF s.c.interval = 0 THEN s ELSE [s EXCEPT !.c.timer[s.c.interval] = FALSE]

\* exit(moduleIdent, ipc, code): arms the forced-exit timer, drops every
\* subscription and stops the queue, sets process.exitCode, releases the
\* module lock.  It returns to its caller.
Exit(s, code) ==
    [s EXCEPT !.c.sinceExit = IF @ = -1 THEN 0 ELSE @,
              !.c.ipcStopped = TRUE,
              !.c.subs = {},
              !.c.pongSub = [k \in Calls |-> FALSE],
              !.c.exitCode = code,
              !.locks = ReleaseLock(@, ModuleLock("lifecycleManager"))]

\* await releaseLock(`lifecycleManager-${gameId}-${instanceId}`), then
\* exit(moduleIdent, ipc, code); the handler goes on at the stage after.
Fail(s, code, to) ==
    [s EXCEPT !.c.stage = "releasing", !.c.code = code, !.c.resume = to]

\* downloadUpdateGame: publishes the request, then subscribes to ack and nack.
DownloadUpdateGame(s) ==
    [s EXCEPT !.c.stage = "download", !.c.dl = "pending",
              !.c.requests = Append(@, "downloadManager.downloadUpdateGame"),
              !.peer.request = "sent",
              !.c.subs = @ \cup {<<CoRequest, "ack">>, <<CoRequest, "nack">>}]

\* downloadUpdateServerConfigGit: the promise it returns is rejected at once
\* ('not yet implemented!'); no request is published.
DownloadUpdateServerConfigGit(s) ==
    LET settled == "rejected"
        t == [s EXCEPT !.c.stage = "config"]
    IN IF settled = "rejected" THEN Fail(t, 2, "end") ELSE Fail(t, 4, "end")

\* The 'start' handler from the stage named on.
Resume(s, to) ==
    CASE to = "download" -> DownloadUpdateGame(s)
      [] to = "waitCM" -> [WaitModuleRunning(s, 2) EXCEPT !.c.stage = "waitCM"]
      [] to = "config" -> DownloadUpdateServerConfigGit(s)
      [] OTHER -> [s EXCEPT !.c.stage = "end"]

\* The 'start' handler after the promise of call k has settled.
WaitSettled(s, k, ok) ==
    IF k = 1
    THEN IF ok THEN Resume(s, "download") ELSE Fail(s, 2, "download")
    ELSE IF ok THEN Resume(s, "config") ELSE Fail(s, 2, "config")

\* One tick of the interval set by call k.
OnTick(s, k) ==
    LET n == s.c.pingCounter[k] + 1
        t == [s EXCEPT !.c.pingCounter[k] = n,
                       !.c.sinceExit = IF @ = -1 THEN -1 ELSE @ + 1]
    IN IF n >= Timeout(k)
       THEN LET cl == ClearInterval(t) IN
            IF cl.c.wait[k] = "pending"
            THEN WaitSettled([cl EXCEPT !.c.wait[k] = "rejected"], k, FALSE)
            ELSE cl
       ELSE [t EXCEPT !.peer.pings = @ \cup {k}]

\* A pong handler that takes any reply for a ready one.
OnPongAnyUptime(s, m) ==
    LET cl == ClearInterval(s) IN
    IF cl.c.wait[m.call] = "pending"
    THEN WaitSettled([cl EXCEPT !.c.wait[m.call] = "resolved",
                                !.c.resolvedBy[m.call] = m], m.call, TRUE)
    ELSE cl

\* The pong handler of call m.call; ipc.unsubscribe(`${msgId}.pong`) names a
\* topic nobody subscribed to, so the handler stays subscribed.
OnPong(s, m) ==
    IF m.uptime >= ReadyUptime
    THEN LET cl == ClearInterval(s) IN
         IF cl.c.wait[m.call] = "pending"
         THEN WaitSettled([cl EXCEPT !.c.wait[m.call] = "resolved",
                                     !.c.resolvedBy[m.call] = m], m.call, TRUE)
         ELSE cl
    ELSE s

\* waitTaskComplete(channel)
WaitTaskComplete(s, ch) ==
    [s EXCEPT !.c.subs = @ \cup {<<ch, "error">>, <<ch, "finalStatus">>}]

\* The promise of downloadUpdateGame settles and the 'start' handler goes on.
DownloadSettled(s, how, m) ==
    IF s.c.dl # "pending" THEN s
    ELSE LET t == [s EXCEPT !.c.dl = how] IN
         IF how = "resolved"
         THEN IF m.status # "completed" THEN Fail(t, 3, "waitCM")
              ELSE Resume(t, "waitCM")
         ELSE Fail(t, 2, "waitCM")

\* The handlers of the reply topics, for message m read on channel ch.
OnReply(s, ch, m) ==
    CASE m.sub = "ack" -> WaitTaskComplete(s, m.subscribeTo)
      [] m.sub = "nack" ->
            IF m.subscribeTo # "-" THEN WaitTaskComplete(s, m.subscribeTo) ELSE s
      [] m.sub = "error" ->
            DownloadSettled([s EXCEPT !.c.terminalOn = ch], "rejected", m)
      [] OTHER ->
            LET u == [s EXCEPT !.c.terminalOn = ch, !.c.subs =
                         @ \ {<<ch, x>> : x \in {"ack", "nack", "error", "finalStatus"}}]
            IN IF m.reason = "completed"
               THEN DownloadSettled(u, "resolved", m)
               ELSE DownloadSettled(u, "rejected", m)

\* spinLock without a budget: the poll that finds the lock clear.
CoSpinClear ==
    /\ CoRunning /\ co.stage = "start"
    /\ SpinResult(IsLocked(locks, SubstrPat(LifecycleLock("csgo", "srv"))),
                  co.spinLeft) = "clear"
    /\ co' = [co EXCEPT !.stage = "acquire", !.spinLeft = 0]
    /\ UNCHANGED << locks, pongs, replies, peer, drvVars >>

\* acquireLock settles; only EEXIST is handled, and the handler goes on to
\* waitModuleRunning('downloadManager') either way.
CoAcquire ==
    /\ CoRunning /\ co.stage = "acquire"
    /\ LET name == LifecycleLock("csgo", "srv")
           got == IF CanAcquire(locks, name)
                  THEN [CoNow EXCEPT !.locks = AcquireLock(@, name, "co")]
                  ELSE Exit(CoNow, 1)
       IN CoCommit([WaitModuleRunning(got, 1) EXCEPT !.c.stage = "waitDM"])

CoTick(k) ==
    /\ CoRunning /\ co.timer[k]
    /\ co.sinceExit < WatchdogTicks
    /\ CoCommit(OnTick(CoNow, k))

\* The queue hands a ping reply to the coordinator.
CoPong(m) ==
    /\ CoRunning /\ ~co.ipcStopped
    /\ m \in pongs
    /\ LET s == [CoNow EXCEPT !.pongs = @ \ {m}] IN
       CoCommit(IF co.pongSub[m.call] THEN OnPong(s, m) ELSE s)

\* The queue hands a request reply to the coordinator; a message no handler
\* is subscribed to is read and dropped.
CoReply(x) ==
    /\ CoRunning /\ ~co.ipcStopped
    /\ x \in replies
    /\ LET s == [CoNow EXCEPT !.replies = @ \ {x}] IN
       CoCommit(IF <<x.ch, x.m.sub>> \in co.subs THEN OnReply(s, x.ch, x.m) ELSE s)

\* releaseLock settles; exit(code); the handler goes on.
CoReleased ==
    /\ CoRunning /\ co.stage = "releasing"
    /\ LET s == [CoNow EXCEPT !.locks = ReleaseLock(@, LifecycleLock("csgo", "srv"))]
       IN CoCommit(Resume(Exit(s, co.code), co.resume))

\* The timer armed by exit() throws: the uncaught exception ends the process
\* with code 1 whatever process.exitCode was.
CoWatchdog ==
    /\ CoRunning /\ co.sinceExit >= WatchdogTicks
    /\ co' = [co EXCEPT !.ended = 1, !.timer = [k \in Calls |-> FALSE]]
    /\ UNCHANGED << locks, pongs, replies, peer, drvVars >>

\* Nothing keeps the event loop alive: the process ends with process.exitCode.
CoDrain ==
    /\ CoRunning /\ co.ipcStopped
    /\ \A k \in Calls : ~co.timer[k]
    /\ co.stage \notin {"start", "acquire", "releasing"}
    /\ co' = [co EXCEPT !.ended = co.exitCode]
    /\ UNCHANGED << locks, pongs, replies, peer, drvVars >>

\* The target of call k answers a ping (setPingReply).
PeerPong(k) ==
    /\ k \in peer.pings
    /\ \E u \in Uptimes : pongs' = pongs \cup {Pong(k, u)}
    /\ peer' = [peer EXCEPT !.pings = @ \ {k}]
    /\ UNCHANGED << co, locks, replies, drvVars >>

\* What downloadManager publishes next for the coordinator's request, with
\* the state it is in afterwards.
PeerMoves(state) ==
    CASE state = "sent" ->
            { <<[ch |-> CoRequest, m |-> ErrorMsg("gameId unsupported")], "done">>,
              <<[ch |-> CoRequest, m |-> NackMsg(OtherRequest)], "nacked">>,
              <<[ch |-> CoRequest, m |-> AckMsg(CoRequest)], "acked">> }
      [] state = "acked" ->
            { <<[ch |-> CoRequest, m |-> ErrorMsg("Timeout exceeded")], "done">>,
              <<[ch |-> CoRequest, m |-> FinalMsg("completed", "completed")], "done">>,
              <<[ch |-> CoRequest, m |-> FinalMsg("canceled", "canceled")], "done">> }
      [] state = "nacked" ->
            { <<[ch |-> OtherRequest, m |-> ErrorMsg("Timeout exceeded")], "done">>,
              <<[ch |-> OtherRequest, m |-> FinalMsg("completed", "completed")], "done">> }
      [] OTHER -> {}

PeerReply ==
    \E mv \in PeerMoves(peer.request) :
        /\ replies' = replies \cup {mv[1]}
        /\ peer' = [peer EXCEPT !.request = mv[2]]
        /\ UNCHANGED << co, locks, pongs, drvVars >>

\* The coordinator after its boilerplate: it holds its module lock; spinLock
\* is about to be called without a budget (timeout = -1).
InitCoordWith(leftover) ==
    /\ driver = "none"
    /\ proc = "up"
    /\ locks = [n \in LockNames |->
                   IF n = ModuleLock("lifecycleManager") THEN "co"
                   ELSE IF n = LifecycleLock("csgo", "srv") /\ leftover THEN "prev"
                   ELSE NoOwner]
    /\ req = [r \in Reqs |-> NoReq]
    /\ pc = [r \in Reqs |-> "new"]
    /\ spinLeft = [r \in Reqs |-> 0]
    /\ out = [ch \in Reqs \cup Cancels |-> << >>]
    /\ runningDownloads = [k \in Keys |-> Absent]
    /\ manifestCached = FALSE
    /\ toolPresent = FALSE
    /\ child = [r \in Reqs |-> "none"]
    /\ runs = [r \in Reqs |-> << >>]
    /\ sigterm = [r \in Reqs |-> FALSE]
    /\ exited = [r \in Reqs |-> << >>]
    /\ forwarder = NoForwarder
    /\ downloadDir = FALSE
    /\ lastLog = << >>
    /\ received = 0
    /\ probe = NoProbe
    /\ creq = [c \in Cancels |-> [gameIdToCancel |-> "csgo", cleanup |-> FALSE]]
    /\ cpc = [c \in Cancels |-> "new"]
    /\ cancelListeners = << >>
    /\ ov = "idle"
    /\ co = [CoNone EXCEPT !.stage = "start", !.spinLeft = -1]
    /\ pongs = {}
    /\ replies = {}
    /\ peer = NoPeer

InitCoord == InitCoordWith(FALSE)

NextCoord ==
    \/ CoSpinClear
    \/ CoAcquire
    \/ \E k \in Calls : CoTick(k)
    \/ \E m \in pongs : CoPong(m)
    \/ \E x \in replies : CoReply(x)
    \/ CoReleased
    \/ CoWatchdog
    \/ CoDrain
    \/ \E k \in Calls : PeerPong(k)
    \/ PeerReply

SpecCoord == InitCoord /\ [][NextCoord]_vars

\* C15: a waitModuleRunning call that has not settled has its one-second
\* timer running, so that it rejects once its budget is spent; this holds
\* for the second call too, whatever replies to the first are read late.
C15_PendingWaitKeepsTicking ==
    \A k \in Calls : (CoRunning /\ co.wait[k] = "pending") => co.timer[k]

\* C16: a waitModuleRunning call resolves only in a turn that reads a pong
\* published under its own replyTo, in answer to one of its pings, that
\* reports an uptime of at least 5.
C16_ResolvesOnOwnReadyPong ==
    [][\A k \in Calls :
          (co.wait[k] # "resolved" /\ co'.wait[k] = "resolved")
             => /\ co.pingCounter[k] >= 1
                /\ \E m \in pongs \ pongs' : m.call = k /\ m.uptime >= ReadyUptime]_vars

C16_Witness ==
    /\ co.wait[1] = "resolved"
    /\ co.resolvedBy[1] = Pong(1, ReadyUptime)
    /\ co.wait[2] = "resolved"
    /\ co.resolvedBy[2].call = 2

\* C17: every reply published under the coordinator's request, or under the
\* channel a nack points it to, finds the coordinator subscribed to it.
C17_RepliesFindSubscriber ==
    (CoRunning /\ ~co.ipcStopped /\ co.dl = "pending")
        => \A x \in replies : <<x.ch, x.m.sub>> \in co.subs

\* C18: once the base download has completed and the config module has been
\* found ready, the coordinator has published its downloadUpdateRepo request.
C18_RepoRequestIssued ==
    (co.dl = "resolved" /\ co.wait[2] = "resolved") => Len(co.requests) >= 2

\* C19: exit code 2 comes from a readiness timeout only, and a base download
\* that ended with an error or a finalStatus other than completed gives 3.
C19_ExitCodeNamesStage ==
    /\ co.exitCode = 2 => \E k \in Calls : co.wait[k] = "rejected"
    /\ (co.dl = "rejected" /\ co.exitCode # -1) => co.exitCode = 3

\* C20: the readiness wait for downloadManager rejects at its 60th tick and
\* not before; the coordinator then releases lifecycleManager-<g>-<i>, sets
\* exit code 2, and the process ends with that code.
C20_ReadinessTimeoutExit ==
    /\ co.pingCounter[1] <= DownloadManagerTimeout
    /\ (CoRunning /\ co.wait[1] = "pending") => co.timer[1]
    /\ co.wait[1] = "rejected" =>
          /\ co.pingCounter[1] = DownloadManagerTimeout
          /\ co.stage # "releasing" =>
                /\ locks[LifecycleLock("csgo", "srv")] = NoOwner
                /\ co.exitCode = 2
          /\ co.ended \in {-1, 2}

C20_Witness ==
    /\ co.wait[1] = "rejected"
    /\ co.ended = 2
    /\ pongs = {}
    /\ 1 \in peer.pings

(***************************************************************************)
(* The coordinator with an instance lock that another process left held,   *)
(* and with termination signals.                                           *)
(***************************************************************************)
\* spinLock without a budget: a poll that finds the instance lock held.  A
\* Timeout error would not be EEXIST, so the handler would go on without
\* the lock.
CoSpinWait ==
    /\ CoRunning /\ co.stage = "start"
    /\ co.spinLeft > -1 - MaxLockPolls
    /\ co.sinceExit <= WatchdogTicks
    /\ LET r == SpinResult(IsLocked(locks, SubstrPat(LifecycleLock("csgo", "srv"))),
                           co.spinLeft)
           t == [CoNow EXCEPT !.c.sinceExit = IF @ = -1 THEN -1 ELSE @ + 1]
       IN /\ r # "clear"
          /\ CoCommit(IF r = "timeout"
                      THEN [WaitModuleRunning(t, 1) EXCEPT !.c.stage = "waitDM",
                                                           !.c.spinLeft = 0]
                      ELSE [t EXCEPT !.c.spinLeft = @ - 1])

\* SIGINT or SIGTERM.  The first signal runs handleTerminationSignal, which
\* calls exit(moduleIdent, ipc, 0), and then the coordinator's own trap,
\* which clears the ping intervals.  exit() removes every signal listener,
\* so a signal after any exit() ends the process by the default action.
CoSignal ==
    /\ CoRunning /\ ~co.signaled
    /\ CoCommit(IF co.sinceExit # -1
                THEN [CoNow EXCEPT !.c.signaled = TRUE, !.c.ended = 143,
                                   !.c.timer = [k \in Calls |-> FALSE]]
                ELSE [ClearInterval(Exit(CoNow, 0)) EXCEPT !.c.signaled = TRUE])

InitSig == \E leftover \in BOOLEAN : InitCoordWith(leftover)

NextSig ==
    \/ CoSpinClear
    \/ CoSpinWait
    \/ CoAcquire
    \/ \E k \in Calls : CoTick(k)
    \/ \E m \in pongs : CoPong(m)
    \/ \E x \in replies : CoReply(x)
    \/ CoReleased
    \/ CoWatchdog
    \/ CoDrain
    \/ CoSignal
    \/ \E k \in Calls : PeerPong(k)
    \/ PeerReply
    \/ OperatorCleanup

SpecSig == InitSig /\ [][NextSig]_vars

\* C21: the coordinator does not go on polling an instance lock that stays
\* held: by the time MaxLockPolls polls have found it held, it has given up
\* with exit code 1.
C21_HeldLockGivesUp ==
    co.spinLeft <= -1 - MaxLockPolls => co.exitCode = 1

\* C22: once a termination signal has been handled while the download is in
\* flight, a cancelDownload request has been published and the coordinator
\* holds neither of its locks.
C22_SignalCancelsAndReleases ==
    (co.signaled /\ co.dl = "pending")
        => /\ \E i \in 1..Len(co.requests) :
                 co.requests[i] = "downloadManager.cancelDownload"
           /\ locks[ModuleLock("lifecycleManager")] = NoOwner
           /\ locks[LifecycleLock("csgo", "srv")] = NoOwner

\* C23: after the coordinator has read the terminal message of an exchange,
\* finalStatus or error, it holds no subscription under that exchange's
\* channel.
C23_NoSubscriptionAfterTerminal ==
    co.terminalOn # "none" => \A x \in co.subs : x[1] # co.terminalOn

\* The request lacks a field its driver validates, or names a game the
\* download driver does not support.
Invalid(r) ==
    IF driver = "download" THEN req[r].gameId \notin supportedGames
    ELSE ~req[r].repoUrl \/ ~req[r].repoDir

\* C24: a request that fails validation is answered with exactly one error
\* message and neither ack nor nack, and the turn that handles it changes
\* neither the lock directory nor the task table.
C24_ValidationErrorOnly ==
    /\ [](\A r \in Reqs :
            (Invalid(r) /\ pc[r] \notin {"new", "sent"})
                => /\ pc[r] = "done"
                   /\ Len(out[r]) = 1
                   /\ out[r][1].sub = "error")
    /\ [][\A r \in Reqs :
            (Invalid(r) /\ pc[r] = "sent" /\ pc'[r] # "sent")
                => /\ locks' = locks
                   /\ runningDownloads' = runningDownloads]_vars

\* C24, reached: a request was refused by validation while the task of the
\* other request held the driver's global lock.
C24_Witness ==
    /\ Invalid("r2") /\ pc["r2"] = "done"
    /\ InFlight("r1") /\ HoldsGlobal("r1")

\* A download request with steamcmdMultiFactorEnabled set.
TwoFactor(r) == driver = "download" /\ req[r].mfa

\* C25, as stated: a download request with two-factor authentication
\* enabled is answered with a single error.
C25_TwoFactorSingleError ==
    \A r \in Reqs :
        (TwoFactor(r) /\ pc[r] = "done")
            => (Len(out[r]) = 1 /\ out[r][1].sub = "error")

\* C25, amended: a download request with two-factor authentication enabled
\* is never acked and no tool child is ever spawned for it; once its handler
\* has returned it has been deflected with a nack as a duplicate or answered
\* with a single error, its task record is gone, and the handler's last step
\* after a refusal under the global lock leaves downloadGame-<g> free.
C25_TwoFactorNeverAttempted ==
    /\ [](\A r \in Reqs :
            TwoFactor(r)
                => /\ ~Has(r, "ack") /\ ~Has(r, "finalStatus")
                   /\ child[r] = "none" /\ runs[r] = << >>
                   /\ pc[r] = "done" =>
                         /\ Len(out[r]) = 1
                         /\ out[r][1].sub \in {"error", "nack"}
                         /\ ~InFlight(r))
    /\ [][\A r \in Reqs :
            (TwoFactor(r) /\ pc[r] = "unlocking" /\ pc'[r] = "done")
                => locks'[DownloadGameLock(req[r].gameId)] = NoOwner]_vars

\* C25, reached: the request got as far as the two-factor check, under the
\* global lock, and was refused there.
C25_Witness ==
    \E r \in Reqs :
        /\ TwoFactor(r) /\ pc[r] = "done"
        /\ out[r] = << ErrorMsg("multifactor auth not supported") >>
        /\ locks[DownloadGameLock(req[r].gameId)] = NoOwner

\* C26: at most one tool child of the download driver is alive at any
\* instant.
C26_OneChildAlive ==
    Cardinality({r \in Reqs : child[r] = "alive"}) <= 1

\* C26, reached: the first task re-spawned its tool once and ended, and the
\* child of the second task is alive.
C26_Witness ==
    /\ child["r1"] = "exited" /\ Len(exited["r1"]) = 2
    /\ child["r2"] = "alive"

(***************************************************************************)
(* The exit-signal forwarder of lib/steamcmd.mjs.                          *)
(***************************************************************************)
\* C27: at every instant the exit-signal forwarder has at most one listener,
\* and that listener kills the tool child spawned last; a later download and
\* a re-spawn after exit code 42 replace the listener, they do not add one.
C27_OneForwarderListener ==
    /\ Len(forwarder.listeners) <= 1
    /\ \A k \in 1..Len(forwarder.listeners) :
          forwarder.listeners[k] = forwarder.spawned

\* The second task's tool has been re-spawned after the first task's tool
\* had exited: the forwarder has been given its listener four times or so.
C27_Witness ==
    /\ exited["r1"] # << >>
    /\ Len(exited["r2"]) = 1
    /\ child["r2"] = "alive"
    /\ forwarder.listeners = << ToolChild("r2", 2) >>

\* C28: every finalStatus message a driver publishes, to the requester of a
\* download, to the requester of a cancellation or to the requester of a
\* repository fetch, carries a reason that is completed, canceled or failed.
C28_FinalStatusHasReason ==
    \A ch \in DOMAIN out : \A k \in 1..Len(out[ch]) :
        out[ch][k].sub = "finalStatus" =>
            out[ch][k].reason \in {"completed", "canceled", "failed"}

\* C29: the step that publishes the canceled finalStatus to the requester of
\* a cancelDownload with cleanup set leaves the task's tool child exited and
\* the download directory removed.
C29_CleanupBeforeCanceled ==
    [][\A c \in Cancels :
          (/\ creq[c].cleanup
           /\ Len(out'[c]) > Len(out[c])
           /\ out'[c][Len(out'[c])] = FinalMsg("canceled", "-"))
          => (/\ ~downloadDir'
              /\ \A r \in Reqs : child'[r] # "alive")]_vars

(***************************************************************************)
(* The last-output list of a task: the 'data' handler of its outputSink    *)
(* (downloadManager.mjs and repoManager.mjs have the same handler).  The   *)
(* n-th line the sink delivers is written n.                               *)
(***************************************************************************)
\* The handler is followed for this many lines.
MaxLines == 1003

LastLogMax == 1000

Min(a, b) == IF a < b THEN a ELSE b

\* A handler that puts the line in front and cuts nothing off.
OnDataUntruncated(log, line) == << line >> \o log

\* lastLog.unshift(output); lastLog.length = Math.min(lastLog.length, 1000)
OnData(log, line) ==
    LET unshifted == << line >> \o log
    IN SubSeq(unshifted, 1, Min(Len(unshifted), LastLogMax))

\* The key of the driver's one task.
TaskKey == IF driver = "download" THEN "csgo" ELSE "srv"

\* outputSink.on('data'): the task's output stream delivers its next line.
OnOutputData ==
    /\ Running
    /\ runningDownloads[TaskKey].state = "task"
    /\ runningDownloads[TaskKey].sinks
    /\ received < MaxLines
    /\ received' = received + 1
    /\ lastLog' = OnData(lastLog, received + 1)
    /\ UNCHANGED << locks, driver, coVars, proc, req, pc, spinLeft, runningDownloads,
                    out, manifestCached, toolPresent, toolVars, probe, cancelVars, ov >>

\* One request is served up to the point where its output flows.
InitLog ==
    \E d \in {"download", "repo"}, tool \in BOOLEAN :
        /\ d = "repo" => ~tool
        /\ InitDriver(d, FALSE, tool)

NextLog ==
    \/ received = 0 /\ SendDownloadRequest("r1")
    \/ received = 0 /\ DlReceive("r1")
    \/ received = 0 /\ DlManifestLoaded("r1")
    \/ received = 0 /\ DlAcquire("r1")
    \/ received = 0 /\ DlBootstrapDone("r1")
    \/ received = 0 /\ SendRepoRequest("r1")
    \/ received = 0 /\ RpReceive("r1")
    \/ received = 0 /\ RpAcquire("r1")
    \/ OnOutputData

SpecLog == InitLog /\ [][NextLog]_vars

\* C30: after any sequence of output lines a task has received, its
\* last-output list holds at most 1,000 entries, and they are the lines
\* received last, the newest first.
C30_LastLogNewestThousand ==
    /\ Len(lastLog) = Min(received, LastLogMax)
    /\ \A k \in 1..Len(lastLog) : lastLog[k] = received - k + 1

\* More lines than the list holds have been received.
C30_Witness ==
    /\ received > LastLogMax + 1
    /\ Len(lastLog) = LastLogMax
    /\ lastLog[1] = received
    /\ lastLog[LastLogMax] = received - LastLogMax + 1

(***************************************************************************)
(* The lock service once more: release and re-acquisition.                 *)
(***************************************************************************)
\* C31: releaseLock(N) by the process that acquired N puts the lock directory
\* back as it was before the acquire, N absent and every other name as it is,
\* so that the next acquireLock(N), by any process, succeeds.
C31_ReleaseRestores ==
    [][\A p \in LockProcs :
          (pc[p] = "held" /\ pc'[p] = "idle")
          => /\ locks' = [locks EXCEPT ![req[p].name] = NoOwner]
             /\ LkAcquireResult(locks', req[p].name) = "held"]_vars

\* One process acquired a name and released it, and the other process has
\* acquired that name since.
C31_Witness ==
    \E p \in LockProcs, q \in LockProcs :
        /\ p # q
        /\ req[p].name = req[q].name
        /\ pc[p] = "idle" /\ out[p] = << "held" >>
        /\ pc[q] = "held" /\ locks[req[q].name] = q

(***************************************************************************)
(* isLocked(pattern, stale) on its own: the directory listing, the pattern *)
(* and the staleness option are inputs.  A file is a name and the age of   *)
(* its timestamp; stale is a number of the same unit, 0 for none given.    *)
(***************************************************************************)
\* At most this many lock files are in the directory.
MaxListed == 3

ProbeNames == {ScenarioLockA, ScenarioLockB, DownloadGameLock("csgo")}
Ages == {1, 9}
StaleOptions == {0, 5}
ProbePatterns ==
    {SubstrPat(ScenarioLockA), ExactPat(ScenarioLockA), SubstrPat(<<"repoDownload">>),
     SubstrPat(DownloadGameLock("csgo"))}

Files == [name : ProbeNames, age : Ages]

\* What readdirSync may return: the files in any order, no name twice.
Listings ==
    {l \in UNION {[1..n -> Files] : n \in 0..MaxListed} :
        \A j \in DOMAIN l, k \in DOMAIN l : l[j].name = l[k].name => j = k}

\* lock.checkSync(path, {stale}) of a file that exists: true without the
\* option, otherwise whether the file is no older than stale.
CheckSyncStale(file, stale) == IF stale = 0 THEN TRUE ELSE file.age <= stale

\* The loop of isLocked: the first listed file the regex matches decides;
\* past the end of the listing the answer is false.
RECURSIVE IsLockedStaleFrom(_, _, _, _)
IsLockedStaleFrom(files, k, pat, stale) ==
    IF k > Len(files) THEN FALSE
    ELSE IF RegexTest(pat, files[k].name) THEN CheckSyncStale(files[k], stale)
    ELSE IsLockedStaleFrom(files, k + 1, pat, stale)

IsLockedStale(files, pat, stale) == IsLockedStaleFrom(files, 1, pat, stale)

\* A process calls isLocked(pattern, stale) and gets its answer.
IsLockedCall ==
    /\ probe.result = "none"
    /\ \E files \in Listings, pat \in ProbePatterns, stale \in StaleOptions :
          probe' = [files |-> files, pattern |-> pat, stale |-> stale,
                    result |-> IF IsLockedStale(files, pat, stale) THEN "true" ELSE "false"]
    /\ UNCHANGED << locks, driver, coVars, proc, req, pc, spinLeft, runningDownloads,
                    out, manifestCached, toolPresent, toolVars, logVars, cancelVars, ov >>

InitProbe == InitLock

NextProbe == IsLockedCall

SpecProbe == InitProbe /\ [][NextProbe]_vars

\* C32: isLocked answers true exactly when some file of the directory has a
\* name the regex matches and counts as held under the staleness option,
\* whatever the order of the listing.
C32_TrueIffSomeMatchHeld ==
    probe.result # "none" =>
       (probe.result = "true" <=>
          \E k \in DOMAIN probe.files :
             /\ RegexTest(probe.pattern, probe.files[k].name)
             /\ CheckSyncStale(probe.files[k], probe.stale))

(***************************************************************************)
(* The place of ack in a request's exchange.                               *)
(***************************************************************************)
\* The pattern of the other locks a task waits for before it acks.
CrossTaskPattern(r) ==
    IF driver = "download"
    THEN PrefixPat(<<"baseMount", "-", req[r].gameId, "-">>)
    ELSE ExactPat(<<"configMount", "-", req[r].instanceId>>)

\* The step publishes ack to the request r.
AckStep(r) ==
    /\ Len(out'[r]) > Len(out[r])
    /\ \E k \in (Len(out[r]) + 1)..Len(out'[r]) : out'[r][k].sub = "ack"

\* The step in which the handler of r takes the driver global lock.
AcquireStep(r) ==
    /\ pc[r] = "acquire"
    /\ locks[GlobalLockOf(driver)] = NoOwner
    /\ locks'[GlobalLockOf(driver)] = OwnerOf(driver)

\* C33: a request's ack names the request's own reply channel and is the
\* first message of the exchange, ahead of every terminal message; it is
\* published by the handler that has taken the driver global lock, in the
\* step whose poll finds no lock matching the cross-task pattern.
C33_AckFirstAfterLock ==
    /\ [](\A r \in Reqs : \A k \in 1..Len(out[r]) :
             out[r][k].sub = "ack" => (k = 1 /\ out[r][k].subscribeTo = r))
    /\ [][\A r \in Reqs :
             /\ (pc'[r] = "clearwait" /\ pc[r] # "clearwait") => AcquireStep(r)
             /\ AckStep(r) => /\ AcquireStep(r) \/ pc[r] = "clearwait"
                              /\ ~IsLocked(locks', CrossTaskPattern(r))]_vars

\* A request waited for the global lock, was acked, and has had its terminal
\* message after the ack.
C33_Witness ==
    \E r \in Reqs :
        /\ Len(out[r]) = 2
        /\ out[r][1] = AckMsg(r)
        /\ IsTerminal(out[r][2])
        /\ \E q \in Reqs : q # r /\ Has(q, "nack")

\* C34: a client deflected with nack onto a task's channel gets that task's
\* terminal message once it has subscribed to the channel.  The queue keeps
\* nothing for subscribers that come later, so this needs at least that the
\* terminal message is still to come when the nack is published.
C34_NackOntoOpenExchange ==
    [][\A r \in Reqs, q \in Reqs :
          (/\ Len(out'[r]) > Len(out[r])
           /\ out'[r][Len(out'[r])] = NackMsg(q))
          => Terminals(q) = 0]_vars

\* The step is a poll of p's spinLock that finds its pattern locked and
\* sleeps for another interval.
LkWaits(p) ==
    /\ pc[p] \in {"idle", "spin"}
    /\ pc'[p] = "spin"
    /\ req'[p].op = "spinLock"

\* C35: spinLock(N) waits only while the lock named exactly N is held; a held
\* lock of another key whose name contains N does not make it wait.
C35_WaitsOnlyForOwnName ==
    [][\A p \in LockProcs : LkWaits(p) => locks[req'[p].name] # NoOwner]_vars

(***************************************************************************)
(* Two instances of one module start: each sets up its termination         *)
(* handlers and then awaits spinLock(moduleIdent, 30).  sigterm[p] is set  *)
(* once exit() has run in p; pc, req, spinLeft and out are per instance as *)
(* in SpecLock.                                                            *)
(***************************************************************************)
StartModules == {"downloadManager", "repoManager"}

\* await spinLock(moduleIdent, 30): the first poll.
StStart(p) ==
    /\ pc[p] = "idle"
    /\ ~sigterm[p]
    /\ LkAfterPoll(p, LkSpinClear(locks, req[p].name, SpinTimeout), SpinTimeout)
    /\ UNCHANGED << locks, driver, coVars, proc, req, runningDownloads, manifestCached,
                    toolPresent, toolVars, logVars, probe, cancelVars, ov >>

\* SIGINT, SIGTERM or _broadcast.shutdownAll reaches an instance whose
\* handlers are set up: exit(moduleIdent, ipc, 0), whose nextTick callback
\* calls releaseLock(moduleIdent).  The pending spinLock goes on.
StExit(p) ==
    /\ pc[p] \in {"spin", "acquire", "held"}
    /\ ~sigterm[p]
    /\ sigterm' = [sigterm EXCEPT ![p] = TRUE]
    /\ locks' = ReleaseLock(locks, req[p].name)
    /\ UNCHANGED << driver, coVars, proc, req, pc, spinLeft, runningDownloads, out,
                    manifestCached, toolPresent, child, runs, exited, forwarder,
                    downloadDir, logVars, probe, cancelVars, ov >>

\* The instance ends: the rejected spinLock is an unhandled rejection, and
\* after exit() the event loop drains or the forced-exit timer throws.
StEnd(p) ==
    /\ pc[p] = "failed" \/ (sigterm[p] /\ pc[p] # "ended")
    /\ pc' = [pc EXCEPT ![p] = "ended"]
    /\ UNCHANGED << locks, driver, coVars, proc, req, spinLeft, runningDownloads, out,
                    manifestCached, toolPresent, toolVars, logVars, probe, cancelVars, ov >>

InitStart ==
    \E d \in StartModules :
        /\ driver = d
        /\ proc = "up"
        /\ locks = [n \in LockNames |-> NoOwner]
        /\ req = [p \in LockProcs |-> [op |-> "spinLock", name |-> ModuleLock(d)]]
        /\ pc = [p \in LockProcs |-> "idle"]
        /\ spinLeft = [p \in LockProcs |-> 0]
        /\ out = [p \in LockProcs |-> << >>]
        /\ runningDownloads = [k \in Keys |-> Absent]
        /\ manifestCached = FALSE
        /\ toolPresent = FALSE
        /\ child = [r \in Reqs |-> "none"]
        /\ runs = [r \in Reqs |-> << >>]
        /\ sigterm = [p \in LockProcs |-> FALSE]
        /\ exited = [r \in Reqs |-> << >>]
        /\ forwarder = NoForwarder
        /\ downloadDir = FALSE
        /\ lastLog = << >>
        /\ received = 0
        /\ probe = NoProbe
        /\ creq = [c \in Cancels |-> [gameIdToCancel |-> "csgo", cleanup |-> FALSE]]
        /\ cpc = [c \in Cancels |-> "new"]
        /\ cancelListeners = << >>
        /\ ov = "idle"
        /\ CoAbsent

NextStart ==
    \/ \E p \in LockProcs : StStart(p)
    \/ \E p \in LockProcs : LkPoll(p)
    \/ \E p \in LockProcs : LkAcquire(p)
    \/ \E p \in LockProcs : StExit(p)
    \/ \E p \in LockProcs : StEnd(p)

SpecStart == InitStart /\ [][NextStart]_vars

\* C36: a process removes only lock files it created: whenever the exit of
\* an instance removes a lock file, that instance had created the file.
C36_RemovesOnlyOwnLocks ==
    [][\A p \in LockProcs, n \in LockNames :
          (/\ ~sigterm[p] /\ sigterm'[p]
           /\ locks[n] # NoOwner /\ locks'[n] = NoOwner)
          => locks[n] = p]_vars

\* C37: once the coordinator has called exit with a nonzero code, no later
\* stage is started, no ping timer runs and no request waits for an answer;
\* the code is not replaced by another, and it is the code the process ends
\* with.
C37_FailureExitIsFinal ==
    /\ [](co.exitCode > 0 =>
             /\ co.stage = "end"
             /\ \A k \in Calls : ~co.timer[k]
             /\ co.dl # "pending"
             /\ co.ended \in {-1, co.exitCode})
    /\ [][co.exitCode > 0 => co'.exitCode = co.exitCode]_vars

\* C38: when both cancelDownload requests were received for one download
\* before its tool child exited and the child has exited, the driver is still
\* up, each cancel requester has its canceled finalStatus, and the task's
\* requester has had no terminal message other than one canceled finalStatus.
C38_TwoCancelsEndNormally ==
    \A r \in Reqs :
        (/\ child[r] = "exited"
         /\ \A c \in Cancels : cpc[c] \in {"done", "failed"})
        => /\ proc = "up"
           /\ \A c \in Cancels : out[c] = << FinalMsg("canceled", "-") >>
           /\ \A k \in 1..Len(out[r]) :
                 IsTerminal(out[r][k]) => out[r][k] = FinalMsg("canceled", "canceled")
           /\ Terminals(r) <= 1

(***************************************************************************)
(* The download driver is told to terminate while one request is served.   *)
(***************************************************************************)
\* SIGINT or SIGTERM reaches the driver.  The handlers of lib/steamcmd.mjs
\* run first: the forwarder's listener signals the child it was made for and
\* rejects that runSteamCmd call with SHUTDOWN.  Then exit(moduleIdent, ipc,
\* 0) stops the queue and releases the module lock.  The rejection is caught
\* by downloadUpdateGame, which answers error and awaits releaseLock.
OnSignal(s) ==
    LET ls == s.fw.listeners
        r == ls[1].task
        signalled == [s EXCEPT !.sigterm[r] = @ \/ (s.child[r] = "alive"),
                               !.fw.listeners = << >>]
        forwarded ==
            IF ls = << >> THEN s
            ELSE IF s.pc[r] = "running" /\ ls[1].run = Len(s.runs[r])
            THEN DlToolError(signalled, r, "SHUTDOWN")
            ELSE signalled
    IN [forwarded EXCEPT !.proc = "exiting",
                         !.locks = ReleaseLock(@, ModuleLock("downloadManager"))]

\* onExit of a child whose runSteamCmd promise is already settled: resolve
\* and reject do nothing, the rest of the callback runs as ever.
OnExitSettled(s, r, code) ==
    LET n == Len(s.runs[r])
        seen == [s EXCEPT !.exited[r] = Append(@, code)]
        gone == [seen EXCEPT !.child[r] = "exited"]
    IN IF s.runs[r][n] THEN AckCanceled(gone, r)
       ELSE IF code = 42
       THEN [Spawn(seen, r, n + 1) EXCEPT !.runs[r] = Append(@, FALSE),
                                          !.sigterm[r] = FALSE]
       ELSE gone

DlSignal ==
    /\ driver = "download" /\ proc = "up"
    /\ Commit(OnSignal(Now))
    /\ UNCHANGED << driver, coVars, req, creq, ov >>

ChildExitSettled(r) ==
    /\ driver = "download" /\ Running
    /\ pc[r] # "running" /\ child[r] = "alive"
    /\ \E code \in ExitCodes :
          /\ code = 42 => Len(runs[r]) < MaxSpawns
          /\ Commit(OnExitSettled(Now, r, code))
    /\ UNCHANGED << driver, coVars, req, creq, ov >>

\* The process ends after exit(): the event loop drains, or the forced-exit
\* timer throws.
DlProcessEnds ==
    /\ driver = "download" /\ proc = "exiting"
    /\ proc' = "crashed"
    /\ UNCHANGED << locks, driver, coVars, req, pc, spinLeft, runningDownloads, out,
                    manifestCached, toolPresent, toolVars, logVars, probe, cancelVars, ov >>

InitShut == InitTool

NextShut ==
    \/ SendDownloadRequest("r1")
    \/ DlReceive("r1")
    \/ DlManifestLoaded("r1")
    \/ DlSpinTick("r1")
    \/ DlAcquire("r1")
    \/ DlBootstrapDone("r1")
    \/ ChildExit("r1")
    \/ DlReleased("r1")
    \/ DlReleasedErr("r1")
    \/ DlUnlocked("r1")
    \/ SendCancel("c1")
    \/ DlCancel("c1")
    \/ OperatorCleanup
    \/ DlSignal
    \/ ChildExitSettled("r1")
    \/ DlProcessEnds

SpecShut == InitShut /\ [][NextShut]_vars

\* C39: a tool child is alive only while the download driver holds
\* downloadGame-<g>.
C39_ChildAliveUnderLock ==
    \A r \in Reqs :
        child[r] = "alive" => locks[DownloadGameLock("csgo")] = OwnerOf("download")

\* The cancel command has reached the task's running invocation while its
\* child was alive: cancelInProgress is set and SIGTERM was sent.
CancelDelivered(r) == runs[r] # << >> /\ Last(runs[r]) /\ sigterm[r]

====
